---------------------------- MODULE Spec2Model ----------------------------
(***************************************************************************)
(* A model of the colour picker (src/picker.js): the colorimetric          *)
(* functions, the selection / contrast state kept by the DOMContentLoaded  *)
(* closure, and its event handlers.                                        *)
(*                                                                         *)
(* Numbers.  The program computes in IEEE doubles; here every real is a    *)
(* fixed-point integer n standing for n / One, with One = 2 * 255 * 255.   *)
(* An 8-bit colour component k / 255 is 510 * k, a tint component (a       *)
(* multiple of 1 / 255^2) is exact as well, and so is the ratio 4.5.       *)
(* Products and quotients round down to a multiple of 1 / One.             *)
(***************************************************************************)
EXTENDS Integers, Sequences, FiniteSets, TLC

One == 2 * 255 * 255

Max(a, b) == IF a >= b THEN a ELSE b
Min(a, b) == IF a <= b THEN a ELSE b

\* a * b for fixed-point a, b >= 0: floor(a * b / One), in 32-bit steps.
FMul(a, b) == (((a \div 255) * b) + (((a % 255) * b) \div 255)) \div 510

\* n / d for fixed-point n and d > 0: floor(n * One / d), in 32-bit steps.
FDiv(n, d) == (((n * 510) \div d) * 255) + ((((n * 510) % d) * 255) \div d)

(***************************************************************************)
(* Math.pow.  x^2.4 = x^2 * (x^2)^(1/5) and x^(1/2.4) = (x^(1/12))^5; the  *)
(* roots are found by bisection on the monotone fixed-point power.         *)
(***************************************************************************)
Pow5(y) == FMul(FMul(FMul(FMul(y, y), y), y), y)

Pow12(y) ==
    LET y2 == FMul(y, y)
        y4 == FMul(y2, y2)
        y8 == FMul(y4, y4)
    IN  FMul(y8, y4)

\* The largest y in lo .. hi - 1 with Pow5(y) <= v, given Pow5(lo) <= v < Pow5(hi).
RECURSIVE Root5(_, _, _)
Root5(v, lo, hi) ==
    IF hi - lo <= 1 THEN lo
    ELSE LET mid == (lo + hi) \div 2
         IN  IF Pow5(mid) <= v THEN Root5(v, mid, hi) ELSE Root5(v, lo, mid)

\* The largest y in lo .. hi - 1 with Pow12(y) <= v, given Pow12(lo) <= v < Pow12(hi).
RECURSIVE Root12(_, _, _)
Root12(v, lo, hi) ==
    IF hi - lo <= 1 THEN lo
    ELSE LET mid == (lo + hi) \div 2
         IN  IF Pow12(mid) <= v THEN Root12(v, mid, hi) ELSE Root12(v, lo, mid)

\* Math.pow(x, 2.4) for 0 <= x <= 1.
Pow24(x) ==
    LET x2 == FMul(x, x)
    IN  FMul(x2, Root5(x2, 0, One + 1))

\* Math.pow(x, 1 / 2.4) for 0 <= x < 16.
PowInv24(x) ==
    LET y == Root12(x, 0, (One \div 4) * 5 + 1)
    IN  Pow5(y)

\* The argument checks the colour functions share: a number in 0 <= c <= 1.
InRange(c) == c >= 0 /\ c <= One

(***************************************************************************)
(* A function that can throw is two operators: fThrows(args), the checks   *)
(* that end in a throw, and f(args), what it returns when none of them     *)
(* fires.  A caller tests fThrows before it uses f.                        *)
(***************************************************************************)
linearizeThrows(colourValue) == ~InRange(colourValue)

linearize(colourValue) ==
    IF colourValue * 100 <= (3928 * One) \div 1000
    THEN (colourValue * 100) \div 1292
    ELSE Pow24(((1000 * colourValue) + (55 * One)) \div 1055)

calcLuminanceThrows(red, green, blue) ==
    ~InRange(red) \/ ~InRange(green) \/ ~InRange(blue)

\* linearize of the 8-bit components k / 255, evaluated once.
LinearizeCache == [k \in 0 .. 255 |-> linearize(k * (One \div 255))] @@ <<>>

LinearizeOf(colourValue) ==
    IF InRange(colourValue) /\ colourValue % (One \div 255) = 0
    THEN LinearizeCache[colourValue \div (One \div 255)]
    ELSE linearize(colourValue)

calcLuminance(red, green, blue) ==
    ((2126 * LinearizeOf(red)) + (7152 * LinearizeOf(green)) + (722 * LinearizeOf(blue)))
        \div 10000

\* The number of tints interpolateTints produces (the loop bound of line 70).
TintCount == 256

\* A colour is a triple <<red, green, blue>>.
White == <<One, One, One>>

\* A fault: the test that some component is 1 is left out.
NotPureHueLax(red, green, blue) ==
    \/ (red # 0 /\ green # 0 /\ blue # 0)
    \/ (red = One /\ green = One /\ blue = One)

\* Line 60: the shape test of a pure hue.
NotPureHue(red, green, blue) ==
    \/ (red # 0 /\ green # 0 /\ blue # 0)
    \/ (red = One /\ green = One /\ blue = One)
    \/ (red # One /\ green # One /\ blue # One)

\* A fault: the interpolation runs from the hue (i = 0) up to white.
TintComponentFromHue(c, i) == Min(One, c + (((One - c) * i) \div (TintCount - 1)))

\* One component of tint i: Math.max(c, 1 - ((1 - c) / 255) * i).
TintComponent(c, i) == Max(c, One - (((One - c) * i) \div (TintCount - 1)))

interpolateTintsThrows(red, green, blue) ==
    \/ ~InRange(red) \/ ~InRange(green) \/ ~InRange(blue)
    \/ NotPureHue(red, green, blue)

\* The tint array, indexed 0 .. 255 as in the program.
interpolateTints(red, green, blue) ==
    [i \in 0 .. (TintCount - 1) |->
        <<TintComponent(red, i), TintComponent(green, i), TintComponent(blue, i)>>]

\* A fault: the shape test joins its three tests with "or".
NotPureTintAny(red, green, blue) == red # One \/ green # One \/ blue # One

\* Line 104: the shape test of a tint.
NotPureTint(red, green, blue) == red # One /\ green # One /\ blue # One

shadeToLuminanceThrows(targetLuminance, red, green, blue) ==
    \/ ~InRange(targetLuminance)
    \/ ~InRange(red) \/ ~InRange(green) \/ ~InRange(blue)
    \/ NotPureTint(red, green, blue)

shadeToLuminance(targetLuminance, red, green, blue) ==
    LET tintLuminance == calcLuminance(red, green, blue)
        scaledLuminance == FDiv(targetLuminance, tintLuminance)
    IN  IF scaledLuminance * 1000 < ((3928 * One) \div 1292) + 1
        THEN (scaledLuminance * 1292) \div 100
        ELSE ((PowInv24(scaledLuminance) * 1055) - (55 * One)) \div 1000

(***************************************************************************)
(* The inputs the environment can deliver.                                 *)
(***************************************************************************)
\* The hue slider delivers the multiples of HueStep degrees in 0 .. 360.
HueStep == 200
SliderValues == {h \in 0 .. 360 : h % HueStep = 0}

\* The saturation field is RectSize pixels wide and high; a mouse event lies
\* at most one pixel outside of it.
RectSize == 1
MouseOffsets == (-1) .. (RectSize + 1)
FieldOffsets == 0 .. RectSize

\* What parseFloat makes of the text typed into the contrast-ratio input.
NaN == [nan |-> TRUE, value |-> 0]
Number(v) == [nan |-> FALSE, value |-> v]
RatioInputs == {NaN} \cup {Number(v) : v \in {One \div 2, One, 21 * One, 25 * One}}

\* The texts of the contrast-colour input, character by character.
ColourTexts == { <<"#", "f", "f", "f", "f", "f", "f">>,
                 <<"#", "0", "0", "0", "0", "0", "0">>,
                 <<"#", "8", "0", "8", "0", "8", "0">>,
                 <<"#", "1", "2">> }

LineModes == {"NONE", "B/W", "COLOUR"}

\* The components a direct call of interpolateTints is given: the multiples
\* of 1 / Grid from just below 0 to just above 1.
Grid == 2
Components == {(k * One) \div Grid : k \in (-1) .. (Grid + 1)}

(***************************************************************************)
(* The state of the DOMContentLoaded closure.                              *)
(***************************************************************************)
VARIABLES
    hue_slider,                 \* hue_slider.value, in degrees
    hue_input,                  \* hue_input.value, in degrees
    current_hue,
    current_tints,
    current_colour,
    current_luminance,
    line_mode,
    position_left,
    position_bottom,
    onmousemove,                \* document.onmousemove: "null" or "moveIndicator"
    onmouseup,                  \* document.onmouseup: "null" or "release"
    mouse_button,               \* the mouse button itself: "up" or "down"
    contrast_colour_input,      \* contrast_colour_input.value
    contrast_ratio,
    contrast_upper_luminance,
    contrast_lower_luminance,
    line_canvas,                \* what renderLines left on #saturation-lines
    render_calls,               \* calls of renderLines made by the last handler
    call_args,                  \* the arguments of a direct call of interpolateTints
    call_result                 \* and what the call returned

hueVars == <<hue_slider, hue_input, current_hue, current_tints>>
colourVars == <<current_colour, current_luminance>>
pointerVars == <<position_left, position_bottom>>
dragVars == <<onmousemove, onmouseup, mouse_button>>
contrastVars == <<contrast_colour_input, contrast_ratio,
                  contrast_upper_luminance, contrast_lower_luminance>>
canvasVars == <<line_canvas, render_calls>>
callVars == <<call_args, call_result>>
vars == <<hueVars, colourVars, line_mode, pointerVars, dragVars, contrastVars,
          canvasVars, callVars>>

(***************************************************************************)
(* recalculateHue, lines 141-144: the browser computes hsl(hue, 100%, 50%) *)
(* to "rgb(r, g, b)" with 8-bit components, which the handler parses and   *)
(* divides by 255.                                                         *)
(***************************************************************************)
HslToRgb(hue) ==
    LET h == hue % 360
        sector == h \div 60
        f == h % 60
        up == ((510 * f) + 60) \div 120
        down == ((510 * (60 - f)) + 60) \div 120
    IN  CASE sector = 0 -> <<255, up, 0>>
          [] sector = 1 -> <<down, 255, 0>>
          [] sector = 2 -> <<0, 255, up>>
          [] sector = 3 -> <<0, down, 255>>
          [] sector = 4 -> <<up, 0, 255>>
          [] OTHER      -> <<255, 0, down>>

\* parseInt(byte) / 255
ByteToComponent(byte) == byte * (One \div 255)

HueOfSlider(hue) ==
    LET rgb == HslToRgb(hue)
    IN  <<ByteToComponent(rgb[1]), ByteToComponent(rgb[2]), ByteToComponent(rgb[3])>>

(***************************************************************************)
(* recalculateColour, lines 192-214: the colour under the pointer and its  *)
(* luminance.                                                              *)
(***************************************************************************)
\* A fault: the pointer's left edge is the hue, its right edge white.
TintAtFromHue(hue_component, left) == hue_component + FMul(One - hue_component, left)

\* 1 + (hue - 1) * position_left
TintAt(hue_component, left) == One - FMul(One - hue_component, left)

\* Math.round(component * 255) / 255
Round8(component) == ((component + 255) \div 510) * 510

recalculateColour(hue, left, bottom) ==
    LET shaded(c) == FMul(TintAt(c, left), One - bottom)
        colour == <<Round8(shaded(hue[1])), Round8(shaded(hue[2])), Round8(shaded(hue[3]))>>
    IN  [colour |-> colour,
         luminance |-> calcLuminance(colour[1], colour[2], colour[3])]

(***************************************************************************)
(* moveIndicator, lines 163-165: the pointer position of a mouse event dx, *)
(* dy pixels right of and below the field's top left corner.               *)
(***************************************************************************)
Clamp01(v) == Max(Min(v, One), 0)

PointerOf(offset) == Clamp01((offset * One) \div RectSize)

(***************************************************************************)
(* recalculateContrast, lines 276-284.                                     *)
(***************************************************************************)
HexDigits == <<"0", "1", "2", "3", "4", "5", "6", "7", "8", "9",
               "a", "b", "c", "d", "e", "f">>

IsHexDigit(char) == \E d \in 1 .. 16 : HexDigits[d] = char

HexValue(char) == (CHOOSE d \in 1 .. 16 : HexDigits[d] = char) - 1

\* text.slice(from, to)
Slice(text, from, to) == SubSeq(text, from + 1, Min(to, Len(text)))

\* parseInt(text, 16) of a text of at most two characters
ParseHex(text) ==
    IF Len(text) = 0 \/ ~IsHexDigit(text[1]) THEN NaN
    ELSE IF Len(text) = 1 \/ ~IsHexDigit(text[2]) THEN Number(HexValue(text[1]))
    ELSE Number((16 * HexValue(text[1])) + HexValue(text[2]))

\* Math.max(0, Math.min(255, n)); NaN stays NaN
ClampByte(n) == IF n.nan THEN NaN ELSE Number(Max(0, Min(255, n.value)))

\* The r, g, b of lines 276-278.
ParseColour(text) ==
    <<ClampByte(ParseHex(Slice(text, 1, 3))),
      ClampByte(ParseHex(Slice(text, 3, 5))),
      ClampByte(ParseHex(Slice(text, 5, 7)))>>

\* Line 279.
ColourIsNaN(text) == \E c \in 1 .. 3 : ParseColour(text)[c].nan

\* Line 281.
ColourLuminance(text) ==
    LET rgb == ParseColour(text)
    IN  calcLuminance(ByteToComponent(rgb[1].value), ByteToComponent(rgb[2].value),
                      ByteToComponent(rgb[3].value))

\* A fault: the term contrast_ratio - 1 is subtracted.
UpperLuminanceOffsetSubtracted(colour_luminance, ratio) ==
    ((20 * FMul(colour_luminance, ratio)) - ratio + One) \div 20

\* A fault: the term contrast_ratio - 1 is left out.
UpperLuminanceNoOffset(colour_luminance, ratio) ==
    (20 * FMul(colour_luminance, ratio)) \div 20

\* Line 283: 0.05 * (20 * colour_luminance * contrast_ratio + contrast_ratio - 1)
UpperLuminance(colour_luminance, ratio) ==
    ((20 * FMul(colour_luminance, ratio)) + ratio - One) \div 20

\* Line 284: (colour_luminance - 0.05 * contrast_ratio + 0.05) / contrast_ratio
LowerLuminance(colour_luminance, ratio) ==
    FDiv((20 * colour_luminance) - ratio + One, ratio) \div 20

\* Line 303: Math.max(1, Math.min(21, value))
ClampRatio(value) == Max(One, Min(21 * One, value))

(***************************************************************************)
(* renderLines, lines 311-388.  The canvas after a call is what was        *)
(* painted ("none", "stroke" or "fill"; "threw" when shadeToLuminance      *)
(* threw before anything was painted) and the path that was painted, a     *)
(* sequence of <<operation, x, y>> with x and y in canvas pixels.          *)
(***************************************************************************)
\* The overlay canvas is as large as the 256 x 256 chart drawn below it.
CanvasWidth == 256
CanvasHeight == 256

\* Line 335: the luminance of the single black / white line.
BlackWhiteLuminance == (1795 * One) \div 10000

\* Line 266.
InitialRatio == (9 * One) \div 2

\* i / (current_tints.length - 1) * width
ColumnX(i) == i * CanvasWidth * (One \div (TintCount - 1))

\* (1 - shade) * height
ShadeY(shade) == (One - shade) * CanvasHeight

\* The loop of lines 338-341 (366-369, 377-380 backwards): one lineTo per
\* tint, left to right, or a throw of shadeToLuminance.
Curve(target, tints) ==
    LET throws == \E i \in DOMAIN tints :
                      shadeToLuminanceThrows(target, tints[i][1], tints[i][2], tints[i][3])
    IN  [throws |-> throws,
         lines |-> IF throws THEN <<>>
                   ELSE [n \in 1 .. TintCount |->
                            <<"lineTo", ColumnX(n - 1),
                              ShadeY(shadeToLuminance(target, tints[n - 1][1],
                                                      tints[n - 1][2], tints[n - 1][3]))>>]]

\* The curves of the hues and luminances the inputs above can produce,
\* evaluated once.
KnownTints ==
    {interpolateTints(HueOfSlider(h)[1], HueOfSlider(h)[2], HueOfSlider(h)[3]) :
        h \in SliderValues}

KnownRatios == {InitialRatio} \cup {ClampRatio(r.value) : r \in {i \in RatioInputs : ~i.nan}}

KnownTargets ==
    {BlackWhiteLuminance}
    \cup {UpperLuminance(ColourLuminance(t), r) :
            t \in {c \in ColourTexts : ~ColourIsNaN(c)}, r \in KnownRatios}
    \cup {LowerLuminance(ColourLuminance(t), r) :
            t \in {c \in ColourTexts : ~ColourIsNaN(c)}, r \in KnownRatios}

CurveCache ==
    [key \in KnownTints \X {t \in KnownTargets : InRange(t)} |-> Curve(key[2], key[1])]
        @@ <<>>

CurveOf(target, tints) ==
    IF <<tints, target>> \in DOMAIN CurveCache
    THEN CurveCache[<<tints, target>>]
    ELSE Curve(target, tints)

\* A fault: the lower curve is walked left to right as well.
NotReversed(seq) == seq

Reversed(seq) == [n \in 1 .. Len(seq) |-> seq[Len(seq) + 1 - n]]

Cleared == [paint |-> "none", path |-> <<>>]
Threw == [paint |-> "threw", path |-> <<>>]

\* Lines 335-341 and 363-369: moveTo the point of tint 1, then the curve.
CurveFromLeft(curve) == <<<<"moveTo", 0, curve.lines[2][3]>>>> \o curve.lines

\* A fault: the bounds are compared strictly.
EntirelyOutOfBoundsStrict(upper, lower) == upper < 0 \/ lower > One

\* Line 354.
EntirelyOutOfBounds(upper, lower) == upper <= 0 \/ lower >= One

renderLines(mode, tints, upper, lower) ==
    CASE mode = "B/W" ->
            LET curve == CurveOf(BlackWhiteLuminance, tints)
            IN  IF curve.throws THEN Threw
                ELSE [paint |-> "stroke", path |-> CurveFromLeft(curve)]
      [] mode = "COLOUR" ->
            IF EntirelyOutOfBounds(upper, lower) THEN Cleared
            ELSE LET upperCurve == IF upper >= One THEN [throws |-> FALSE, lines |-> <<>>]
                                   ELSE CurveOf(upper, tints)
                     lowerCurve == IF lower <= 0 THEN [throws |-> FALSE, lines |-> <<>>]
                                   ELSE CurveOf(lower, tints)
                     top == IF upper >= One
                            THEN << <<"moveTo", 0, 0>>,
                                    <<"lineTo", CanvasWidth * One, 0>> >>
                            ELSE CurveFromLeft(upperCurve)
                     bottom == IF lower <= 0
                               THEN << <<"lineTo", CanvasWidth * One, CanvasHeight * One>>,
                                       <<"lineTo", 0, CanvasHeight * One>> >>
                               ELSE Reversed(lowerCurve.lines)
                 IN  IF upperCurve.throws \/ lowerCurve.throws THEN Threw
                     ELSE [paint |-> "fill", path |-> top \o bottom]
      [] OTHER -> Cleared

\* The target luminances renderLines hands to shadeToLuminance, each with
\* every tint: 0.1795 in B/W mode (lines 335, 339); in COLOUR mode the upper
\* bound when it is below 1 (lines 363, 367) and the lower bound when it is
\* above 0 (line 378), unless line 354 breaks first.
RenderTargets(mode, upper, lower) ==
    CASE mode = "B/W" -> {BlackWhiteLuminance}
      [] mode = "COLOUR" ->
            IF EntirelyOutOfBounds(upper, lower) THEN {}
            ELSE (IF upper >= One THEN {} ELSE {upper})
                 \cup (IF lower <= 0 THEN {} ELSE {lower})
      [] OTHER -> {}

(***************************************************************************)
(* The state after construction: the declarations of lines 126-131, 160,   *)
(* 161 and 266-268, then the calls of lines 395-399.  The slider's and the *)
(* colour input's first values come with the page.                         *)
(***************************************************************************)
Constructed(slider, text) ==
    LET hue == HueOfSlider(slider)
        tints == interpolateTints(hue[1], hue[2], hue[3])
        picked == recalculateColour(hue, One, 0)
        luminance == ColourLuminance(text)
    IN  /\ hue_slider = slider
        /\ hue_input = slider
        /\ current_hue = hue
        /\ current_tints = tints
        /\ current_colour = picked.colour
        /\ current_luminance = picked.luminance
        /\ line_mode = "NONE"
        /\ position_left = One
        /\ position_bottom = 0
        /\ onmousemove = "null"
        /\ onmouseup = "null"
        /\ mouse_button = "up"
        /\ contrast_colour_input = text
        /\ contrast_ratio = InitialRatio
        /\ contrast_upper_luminance =
               IF ColourIsNaN(text) THEN One
               ELSE UpperLuminance(luminance, InitialRatio)
        /\ contrast_lower_luminance =
               IF ColourIsNaN(text) THEN 0
               ELSE LowerLuminance(luminance, InitialRatio)
        /\ line_canvas = Cleared
        /\ render_calls = 0

NoCall == [status |-> "none", value |-> <<>>]

Init ==
    /\ \E slider \in SliderValues, text \in ColourTexts : Constructed(slider, text)
    /\ call_args = <<0, 0, 0>>
    /\ call_result = NoCall

(***************************************************************************)
(* recalculateHue, lines 137-150, reading the slider when it holds `hue`.  *)
(***************************************************************************)
recalculateHue(hue) ==
    LET rgb == HueOfSlider(hue)
        picked == recalculateColour(rgb, position_left, position_bottom)
    IN  /\ current_hue' = rgb
        /\ IF interpolateTintsThrows(rgb[1], rgb[2], rgb[3])
           THEN \* line 145 throws: the handler ends with the new hue only
                /\ UNCHANGED <<current_tints, colourVars, line_canvas>>
                /\ render_calls' = 0
           ELSE /\ current_tints' = interpolateTints(rgb[1], rgb[2], rgb[3])
                /\ current_colour' = picked.colour
                /\ current_luminance' = picked.luminance
                /\ line_canvas' = renderLines(line_mode, current_tints',
                                              contrast_upper_luminance,
                                              contrast_lower_luminance)
                /\ render_calls' = 1

\* 'input' on the slider: recalculateHue (line 152), then line 154.
HueSliderInput(value) ==
    /\ hue_slider' = value
    /\ recalculateHue(value)
    /\ hue_input' = value
    /\ UNCHANGED <<line_mode, pointerVars, dragVars, contrastVars, callVars>>

\* 'input' on the number field: recalculateHue (line 153) reads the slider,
\* which line 155 sets only afterwards.
HueInputInput(value) ==
    /\ hue_input' = value
    /\ recalculateHue(hue_slider)
    /\ hue_slider' = value
    /\ UNCHANGED <<line_mode, pointerVars, dragVars, contrastVars, callVars>>

(***************************************************************************)
(* The pointer, lines 162-186.                                             *)
(***************************************************************************)
moveIndicator(dx, dy) ==
    LET picked == recalculateColour(current_hue, PointerOf(dx), PointerOf(dy))
    IN  /\ position_left' = PointerOf(dx)
        /\ position_bottom' = PointerOf(dy)
        /\ current_colour' = picked.colour
        /\ current_luminance' = picked.luminance

\* saturation_element.onmousedown
MouseDown(dx, dy) ==
    /\ mouse_button = "up"
    /\ mouse_button' = "down"
    /\ moveIndicator(dx, dy)
    /\ onmousemove' = "moveIndicator"
    /\ onmouseup' = "release"
    /\ render_calls' = 0
    /\ UNCHANGED <<hueVars, line_mode, contrastVars, line_canvas, callVars>>

\* 'mousemove' on the document
MouseMove(dx, dy) ==
    /\ IF onmousemove = "moveIndicator"
       THEN moveIndicator(dx, dy)
       ELSE UNCHANGED <<pointerVars, colourVars>>
    /\ render_calls' = 0
    /\ UNCHANGED <<hueVars, line_mode, dragVars, contrastVars, line_canvas, callVars>>

\* A fault: the release leaves document.onmousemove in place.
MouseUpKeepsHandler ==
    /\ mouse_button = "down"
    /\ mouse_button' = "up"
    /\ render_calls' = 0
    /\ UNCHANGED <<hueVars, colourVars, line_mode, pointerVars, onmousemove, onmouseup,
                   contrastVars, line_canvas, callVars>>

\* 'mouseup' on the document
MouseUp ==
    /\ mouse_button = "down"
    /\ mouse_button' = "up"
    /\ onmousemove' = IF onmouseup = "release" THEN "null" ELSE onmousemove
    /\ render_calls' = 0
    /\ UNCHANGED <<hueVars, colourVars, line_mode, pointerVars, onmouseup,
                   contrastVars, line_canvas, callVars>>

(***************************************************************************)
(* The contrast inputs, lines 275-308.                                     *)
(***************************************************************************)
recalculateContrast(text, ratio) ==
    IF ColourIsNaN(text)
    THEN /\ UNCHANGED <<contrast_upper_luminance, contrast_lower_luminance, line_canvas>>
         /\ render_calls' = 0
    ELSE /\ contrast_upper_luminance' = UpperLuminance(ColourLuminance(text), ratio)
         /\ contrast_lower_luminance' = LowerLuminance(ColourLuminance(text), ratio)
         /\ line_canvas' = renderLines(line_mode, current_tints,
                                       contrast_upper_luminance', contrast_lower_luminance')
         /\ render_calls' = 1

\* 'input' on the ratio field; `parsed` is what parseFloat returns.
ContrastRatioInput(parsed) ==
    /\ IF ~parsed.nan
       THEN /\ contrast_ratio' = ClampRatio(parsed.value)
            /\ recalculateContrast(contrast_colour_input, contrast_ratio')
       ELSE /\ UNCHANGED <<contrast_ratio, contrast_upper_luminance,
                           contrast_lower_luminance, line_canvas>>
            /\ render_calls' = 0
    /\ UNCHANGED <<hueVars, colourVars, line_mode, pointerVars, dragVars,
                   contrast_colour_input, callVars>>

\* 'input' on the colour field
ContrastColourInput(text) ==
    /\ contrast_colour_input' = text
    /\ recalculateContrast(text, contrast_ratio)
    /\ UNCHANGED <<hueVars, colourVars, line_mode, pointerVars, dragVars,
                   contrast_ratio, callVars>>

(***************************************************************************)
(* 'change' on a .line-radio, lines 390-393.                               *)
(***************************************************************************)
\* A fault: the new mode is stored and the overlay is not drawn again.
LineRadioChangeNoRender(value) ==
    /\ line_mode' = value
    /\ render_calls' = 0
    /\ UNCHANGED <<hueVars, colourVars, pointerVars, dragVars, contrastVars,
                   line_canvas, callVars>>

LineRadioChange(value) ==
    /\ line_mode' = value
    /\ line_canvas' = renderLines(value, current_tints,
                                  contrast_upper_luminance, contrast_lower_luminance)
    /\ render_calls' = 1
    /\ UNCHANGED <<hueVars, colourVars, pointerVars, dragVars, contrastVars, callVars>>

Next ==
    \/ \E value \in SliderValues : HueSliderInput(value)
    \/ \E value \in SliderValues : HueInputInput(value)
    \/ \E dx \in FieldOffsets, dy \in FieldOffsets : MouseDown(dx, dy)
    \/ \E dx \in MouseOffsets, dy \in MouseOffsets : MouseMove(dx, dy)
    \/ MouseUp
    \/ \E parsed \in RatioInputs : ContrastRatioInput(parsed)
    \/ \E text \in ColourTexts : ContrastColourInput(text)
    \/ \E value \in LineModes : LineRadioChange(value)

Spec == Init /\ [][Next]_vars

(***************************************************************************)
(* interpolateTints called on its own, with any colour of the grid.        *)
(***************************************************************************)
InitCall ==
    /\ Constructed(0, <<"#", "f", "f", "f", "f", "f", "f">>)
    /\ call_args \in Components \X Components \X Components
    /\ call_result = NoCall

CallInterpolateTints ==
    /\ call_result.status = "none"
    /\ call_result' =
           IF interpolateTintsThrows(call_args[1], call_args[2], call_args[3])
           THEN [status |-> "threw", value |-> <<>>]
           ELSE [status |-> "returned",
                 value |-> interpolateTints(call_args[1], call_args[2], call_args[3])]
    /\ UNCHANGED <<hueVars, colourVars, line_mode, pointerVars, dragVars, contrastVars,
                   canvasVars, call_args>>

NextCall == CallInterpolateTints

SpecCall == InitCall /\ [][NextCall]_vars

(***************************************************************************)
(* Properties of interpolateTints, checked under SpecCall.                 *)
(***************************************************************************)
Returned == call_result.status = "returned"

ArgsInRange == \A c \in 1 .. 3 : InRange(call_args[c])

OnesOfArgs == {c \in 1 .. 3 : call_args[c] = One}

ZeroesOfArgs == {c \in 1 .. 3 : call_args[c] = 0}

\* C1 as stated: for a pure hue interpolateTints returns 256 entries, entry 0
\* is the hue, entry 255 is white, and every channel is non-decreasing in the
\* index.
C1_HueFirstWhiteLast ==
    Returned =>
        LET t == call_result.value
        IN  /\ DOMAIN t = 0 .. 255
            /\ t[0] = call_args
            /\ t[255] = White
            /\ \A i \in 0 .. 254, c \in 1 .. 3 : t[i][c] <= t[i + 1][c]

\* C1 as the code has it: for a pure hue interpolateTints returns 256
\* entries, entry 0 is white, entry 255 is the hue, and every channel is
\* non-increasing in the index.
C1_WhiteFirstHueLast ==
    Returned =>
        LET t == call_result.value
        IN  /\ DOMAIN t = 0 .. 255
            /\ t[0] = White
            /\ t[255] = call_args
            /\ \A i \in 0 .. 254, c \in 1 .. 3 : t[i][c] >= t[i + 1][c]

\* A call that returned the tints of a hue with a component strictly between
\* 0 and 1.
C1_Witness ==
    /\ Returned
    /\ \E c \in 1 .. 3 : call_args[c] > 0 /\ call_args[c] < One

\* C5 as stated: a colour is accepted if and only if its components lie in
\* [0, 1], exactly one of them is 1 and at least one is 0; a rejected call
\* produces no tints.
C5_AcceptsExactlyOneOne ==
    call_result.status # "none" =>
        /\ Returned <=> (ArgsInRange /\ Cardinality(OnesOfArgs) = 1 /\ ZeroesOfArgs # {})
        /\ ~Returned => (call_result.status = "threw" /\ call_result.value = <<>>)

\* C5 as the code has it: a colour of numeric components is accepted if and
\* only if its components lie in [0, 1], at least one of them is 1 and at
\* least one is 0 (two may be 1); a rejected call throws and produces no
\* tints.
C5_AcceptsSomeOneSomeZero ==
    call_result.status # "none" =>
        /\ Returned <=> (ArgsInRange /\ OnesOfArgs # {} /\ ZeroesOfArgs # {})
        /\ ~Returned => (call_result.status = "threw" /\ call_result.value = <<>>)

\* An accepted colour with two components equal to 1.
C5_Witness == Returned /\ Cardinality(OnesOfArgs) = 2

(***************************************************************************)
(* Properties of the picker, checked under Spec.                           *)
(***************************************************************************)
WhiteText == <<"#", "f", "f", "f", "f", "f", "f">>

BlackText == <<"#", "0", "0", "0", "0", "0", "0">>

Rounded(colour) == <<Round8(colour[1]), Round8(colour[2]), Round8(colour[3])>>

\* C2 as stated: with the pointer at left = 0, bottom = 0 the current colour
\* is the hue itself, rounded to 8 bits.
C2_TopLeftIsHue ==
    (position_left = 0 /\ position_bottom = 0) => current_colour = Rounded(current_hue)

\* C2 as the code has it: with the pointer at left = 0, bottom = 0 the
\* current colour is white; the hue itself, rounded to 8 bits, is the colour
\* at left = 1, bottom = 0.
C2_TopLeftIsWhite ==
    /\ (position_left = 0 /\ position_bottom = 0) => current_colour = White
    /\ (position_left = One /\ position_bottom = 0) => current_colour = Rounded(current_hue)

\* A drag has put the pointer at left = 0, bottom = 0 while the hue is pure
\* red.
C2_Witness ==
    /\ position_left = 0
    /\ position_bottom = 0
    /\ onmouseup = "release"
    /\ current_hue = <<One, 0, 0>>

WhiteAtRatio21 ==
    /\ contrast_colour_input = WhiteText
    /\ contrast_ratio = 21 * One

\* C3 as stated: with reference colour white and contrast ratio 21 the upper
\* contrast luminance is exactly 1 and the lower one is at most 0.
C3_UpperIsOne ==
    WhiteAtRatio21 =>
        /\ contrast_upper_luminance = One
        /\ contrast_lower_luminance <= 0

\* C3 as the code has it: with reference colour white and contrast ratio 21
\* the upper contrast luminance is 22, unclamped, and the lower one is at
\* most 0.
C3_UpperIsTwentyTwo ==
    WhiteAtRatio21 =>
        /\ contrast_upper_luminance = 22 * One
        /\ contrast_lower_luminance <= 0

\* recalculateContrast has run with white and ratio 21.
C3_Witness == WhiteAtRatio21 /\ render_calls = 1

BlackAtRatio1 ==
    /\ contrast_colour_input = BlackText
    /\ contrast_ratio = One

C6_ModeChangeOnlyRenders ==
    [][line_mode' # line_mode =>
        /\ render_calls' = 1
        /\ line_canvas' = renderLines(line_mode', current_tints, contrast_upper_luminance,
                                      contrast_lower_luminance)
        /\ UNCHANGED <<hueVars, colourVars, pointerVars, contrastVars>>
        /\ line_mode' = "NONE" => line_canvas' = Cleared]_vars

\* A mode change has just stroked the black / white line.
C6_Witness ==
    /\ line_mode = "B/W"
    /\ render_calls = 1
    /\ line_canvas.paint = "stroke"

\* C7: after any sequence of events the derived state is consistent with the
\* current inputs: the tints are those of the hue the hue controls hold, the
\* colour and luminance are those of that hue at the pointer, and the
\* contrast bounds are the formulas applied to the reference colour and the
\* contrast ratio.
C7_DerivedStateConsistent ==
    LET hue == HueOfSlider(hue_slider)
        picked == recalculateColour(hue, position_left, position_bottom)
    IN  /\ current_hue = hue
        /\ current_tints = interpolateTints(hue[1], hue[2], hue[3])
        /\ current_colour = picked.colour
        /\ current_luminance = picked.luminance
        /\ ~ColourIsNaN(contrast_colour_input) =>
               /\ contrast_upper_luminance =
                      UpperLuminance(ColourLuminance(contrast_colour_input), contrast_ratio)
               /\ contrast_lower_luminance =
                      LowerLuminance(ColourLuminance(contrast_colour_input), contrast_ratio)

UpperCurvePoint(j) == CurveOf(contrast_upper_luminance, current_tints).lines[j + 1]

LowerCurvePoint(j) == CurveOf(contrast_lower_luminance, current_tints).lines[j + 1]

\* C8: in COLOUR mode nothing is filled if the upper bound is <= 0 or the
\* lower bound is >= 1; otherwise the filled path runs along the top edge
\* (upper bound >= 1) or from the left edge along the upper curve, one point
\* per column from left to right, and then along the bottom edge (lower bound
\* <= 0) or along the lower curve, one point per column from right to left.
C8_FillBetweenCurves ==
    line_mode = "COLOUR" =>
        LET upper == contrast_upper_luminance
            lower == contrast_lower_luminance
            path == line_canvas.path
            topLen == IF upper >= One THEN 2 ELSE TintCount + 1
            bottomLen == IF lower <= 0 THEN 2 ELSE TintCount
        IN  IF upper <= 0 \/ lower >= One
            THEN line_canvas = Cleared
            ELSE /\ line_canvas.paint = "fill"
                 /\ Len(path) = topLen + bottomLen
                 /\ IF upper >= One
                    THEN /\ path[1] = <<"moveTo", 0, 0>>
                         /\ path[2] = <<"lineTo", CanvasWidth * One, 0>>
                    ELSE /\ path[1][1] = "moveTo"
                         /\ path[1][2] = 0
                         /\ \A j \in 0 .. (TintCount - 1) : path[j + 2] = UpperCurvePoint(j)
                 /\ IF lower <= 0
                    THEN /\ path[topLen + 1] = <<"lineTo", CanvasWidth * One, CanvasHeight * One>>
                         /\ path[topLen + 2] = <<"lineTo", 0, CanvasHeight * One>>
                    ELSE \A j \in 0 .. (TintCount - 1) :
                             path[topLen + TintCount - j] = LowerCurvePoint(j)

\* The overlay is filled between two curves: both bounds lie strictly
\* between 0 and 1.
C8_Witness ==
    /\ line_mode = "COLOUR"
    /\ contrast_upper_luminance > 0 /\ contrast_upper_luminance < One
    /\ contrast_lower_luminance > 0 /\ contrast_lower_luminance < One
    /\ line_canvas.paint = "fill"

BlackWhitePoint(j) == CurveOf(BlackWhiteLuminance, current_tints).lines[j + 1]

\* C9: in B/W mode the stroked path is exactly one point per tint column
\* j = 0 .. 255, in increasing j, at x = j / 255 * width and
\* y = (1 - shadeToLuminance(0.1795, tint[j])) * height; there is no other
\* point and the first point is the one of tint[0].
C9_OnePointPerColumn ==
    line_mode = "B/W" =>
        LET path == line_canvas.path
        IN  /\ line_canvas.paint = "stroke"
            /\ Len(path) = TintCount
            /\ \A j \in 0 .. (TintCount - 1) :
                   /\ path[j + 1][2] = BlackWhitePoint(j)[2]
                   /\ path[j + 1][3] = BlackWhitePoint(j)[3]

Dragging == mouse_button = "down"

\* C10: both pointer coordinates lie in [0, 1] in every reachable state; the
\* pointer is written only by a mouse-down on the field and by the
\* mouse-moves up to the next mouse-up; a mouse-move after the mouse-up
\* leaves the pointer, the colour and the luminance as they are.
C10_PointerOwnedByDrag ==
    /\ [](position_left \in 0 .. One /\ position_bottom \in 0 .. One)
    /\ [][pointerVars' # pointerVars => Dragging']_vars
    /\ [][(~Dragging /\ \E dx \in MouseOffsets, dy \in MouseOffsets : MouseMove(dx, dy))
              => UNCHANGED <<pointerVars, colourVars>>]_vars

\* A drag that moved the pointer to the left edge has been released.
C10_Witness ==
    /\ ~Dragging
    /\ onmouseup = "release"
    /\ position_left = 0

\* The reference luminances k / Grid and the whole contrast ratios 1 .. 21.
LuminanceGrid == {(k * One) \div Grid : k \in 0 .. Grid}

RatioGrid == {k * One : k \in 1 .. 21}

BoundsStale == ColourIsNaN(contrast_colour_input)

C12_RenderArgumentsValid ==
    /\ line_canvas.paint # "threw"
    /\ \A mode \in LineModes :
           \A target \in RenderTargets(mode, contrast_upper_luminance,
                                       contrast_lower_luminance) :
               /\ InRange(target)
               /\ \A i \in 0 .. (TintCount - 1) :
                      /\ \E c \in 1 .. 3 : current_tints[i][c] = One
                      /\ ~shadeToLuminanceThrows(target, current_tints[i][1],
                                                 current_tints[i][2], current_tints[i][3])

\* renderLines has just filled below the top edge down to a lower curve: the
\* upper bound is above 1 and is not handed on, the lower bound is.
C12_Witness ==
    /\ line_mode = "COLOUR"
    /\ render_calls = 1
    /\ line_canvas.paint = "fill"
    /\ contrast_upper_luminance >= One
    /\ contrast_lower_luminance > 0

=============================================================================
